---- MODULE Spec2Model ----
(***************************************************************************)
(* A model of src/utils/motion.py: the RepeatedTimer (a self re-arming     *)
(* threading.Timer), the Robot's foreground motion calls, the watchdog     *)
(* callback test_saw_wall and the avoidance loop wall_following.           *)
(*                                                                         *)
(* Every firing of a threading.Timer runs its callback in a thread of its  *)
(* own, so the callbacks of two firings and the foreground interleave at   *)
(* the level of statements.  Time is not measured: a pending timer may     *)
(* fire at any moment, a sleep ends at any moment.                         *)
(***************************************************************************)
EXTENDS Integers, Sequences, FiniteSets, TLC

\* ------------------------------------------------------------ bounds
\* Timer threads that may be alive at once under Spec (a firing needs a free
\* slot); SpecOverlap allows one more.
MaxThreads == 1
\* Pending timers that self._timer no longer refers to.
MaxOrphans == 1

\* ------------------------------------------------- program constants
WallThreshold == 500
ClearNeeded == 15
AvoidSpeed == 100
NumProx == 7
RearSensors == 2
SkipInit == 2
Wrap16 == 65536

SpeedToMmS_e5 == 31573
TickScale == 1000000
HalfTurn == 180
FullTurn == 360
InitSpeed == 100
MaxReading == 9999

Threads == 1..(MaxThreads + 1)

\* The inputs of the foreground's calls.  A target is offered to
\* move_to_target where it lies along an axis from the stored position, so
\* that the distance and the path angle (lines 104, 107) are whole numbers.
Poses == { <<0, 0, 0>>, <<5, 0, -90>>, <<0, 0, 180>> }
Targets == { <<0, 0>>, <<5, 0>>, <<-5, 0>>, <<0, 5>>, <<0, -5>> }
Speeds == { 100, 200 }
TurnAngles == { -90, 0, 90 }
Distances == { -5, 0 }
PathAngles == (1 - HalfTurn)..HalfTurn
Headings == { -2 * FullTurn, -FullTurn, -270, -181, -180, -179, -90, -1, 0, 1, 90, 179, 180, 181,
              270, FullTurn, 2 * FullTurn }
WheelSpeeds == { -MaxReading, -100, -1, 0, 1, 100, MaxReading }

VARIABLES
    is_running,   \* RepeatedTimer.is_running
    timer,        \* the Timer object self._timer refers to
    orphans,      \* started, uncancelled Timers no longer referred to
    flag_local,   \* Robot.flag_local: "True", "False"; "unset" before line 48 has run
    flag_skip,    \* Robot.flag_skip: <<its value>>; <<>> before line 49 has run
    motor,        \* <<motor.left.target, motor.right.target>> as written
    thr,          \* the timer threads: position and wall_following locals
    curr_pos,     \* Robot.curr_pos, <<x, y, angle>>
    speed,        \* Robot.speed
    pcMain,       \* the foreground's position
    fg,           \* the foreground call's locals
    call,         \* history: the foreground's last call and what it has done
    since_stop    \* history: stop() has returned and start() was not called since

timerVars == <<is_running, timer, orphans>>
flagVars == <<flag_local, flag_skip>>
fgVars == <<curr_pos, speed, pcMain, fg, call>>
vars == <<is_running, timer, orphans, flag_local, flag_skip, motor, thr,
          curr_pos, speed, pcMain, fg, call, since_stop>>

\* ------------------------------------------------------ pure helpers

\* Lines 196-199 left out: the speed is sent as it is.
Encode_plain(v) == v

\* move(), lines 196-199: a negative speed is sent as its 16-bit complement.
Encode(v) == IF v < 0 THEN v + Wrap16 ELSE v

\* get_speed, lines 75-78: a reading above 9999 stands for a negative speed.
DecodeSpeed(r) == IF r > MaxReading THEN r - Wrap16 ELSE r

\* move(), lines 196-203: the pair written to the two motor targets.
MoveTargets(l_speed, r_speed) == <<Encode(l_speed), Encode(r_speed)>>

\* th['prox.horizontal'][:-2]: the snapshot without its last two entries.
FrontReadings(prox) == SubSeq(prox, 1, Len(prox) - RearSensors)

\* Line 222 with >= in the place of >.
SawWall_ge(prox, wall_threshold) ==
    \E i \in 1..Len(FrontReadings(prox)) : FrontReadings(prox)[i] >= wall_threshold

\* line 222: any([x > wall_threshold for x in prox[:-2]])
SawWall(prox, wall_threshold) ==
    \E i \in 1..Len(FrontReadings(prox)) : FrontReadings(prox)[i] > wall_threshold

\* The snapshots a sensor read is drawn from: every reading at the
\* threshold except those at the positions of H, which are one above it.
Snapshot(H) == [i \in 1..NumProx |-> IF i \in H THEN WallThreshold + 1 ELSE WallThreshold]
ProxSnapshots ==
    { Snapshot(H) : H \in {{}, {1}, {NumProx - RearSensors}, {NumProx - 1}, {NumProx - 1, NumProx}} }

\* A thread slot no firing is using.  script and clears are history: the
\* polls of the thread's run of wall_following.
FreeThread ==
    [pc |-> "free", caller |-> "none", prev_state |-> "forward", count |-> 0,
     saw_wall |-> FALSE, script |-> "none", clears |-> 0]

\* Thread t moves to position p; its locals stay.
Goto(t, p) == thr' = [thr EXCEPT ![t].pc = p]

\* The thread of a firing ends (its callback returned or raised).
Exit(t) == thr' = [thr EXCEPT ![t] = FreeThread]

\* ------------------------------------------------------------ threading.Timer

FreeSlots == { t \in Threads : thr[t].pc = "free" }
NextSlot == CHOOSE t \in FreeSlots : \A u \in FreeSlots : t <= u

\* A started, uncancelled Timer fires: a new thread starts _run (line 19).
\* It is the Timer self._timer refers to or one it no longer refers to.
\* alive: how many timer threads may exist at once.
Timer_fire(alive) ==
    /\ Cardinality(Threads \ FreeSlots) < alive
    /\ \E current \in BOOLEAN :
         IF current
         THEN timer = "pending" /\ timer' = "dead" /\ orphans' = orphans
         ELSE orphans > 0 /\ orphans' = orphans - 1 /\ timer' = timer
    /\ thr' = [thr EXCEPT ![NextSlot].pc = "run20"]
    /\ UNCHANGED <<is_running, flag_local, flag_skip, motor, since_stop, fgVars>>

\* ------------------------------------------------------------ RepeatedTimer

\* _run, line 20: self.is_running = False; line 21 then calls start().
RT_run_20(t) ==
    /\ thr[t].pc = "run20"
    /\ is_running' = FALSE
    /\ thr' = [thr EXCEPT ![t].pc = "s25", ![t].caller = "_run"]
    /\ UNCHANGED <<timer, orphans, flag_local, flag_skip, motor, since_stop, fgVars>>

\* Where start() returns to: _run goes on to call the function (line 22),
\* test_saw_wall falls through to its return (line 234) and the thread ends.
StartReturn(t) ==
    IF thr[t].caller = "_run"
    THEN thr' = [thr EXCEPT ![t].pc = "tsw222", ![t].caller = "none"]
    ELSE Exit(t)

\* start, line 25: if not self.is_running
RT_start_25(t) ==
    /\ thr[t].pc = "s25"
    /\ IF is_running THEN StartReturn(t) ELSE Goto(t, "s26")
    /\ since_stop' = FALSE
    /\ UNCHANGED <<is_running, timer, orphans, flag_local, flag_skip, motor, fgVars>>

\* start, line 26: self._timer = Timer(self.interval, self._run)
RT_start_26(t) ==
    /\ thr[t].pc = "s26"
    /\ timer = "pending" => orphans < MaxOrphans
    /\ timer' = "new"
    /\ orphans' = IF timer = "pending" THEN orphans + 1 ELSE orphans
    /\ Goto(t, "s27")
    /\ UNCHANGED <<is_running, flag_local, flag_skip, motor, since_stop, fgVars>>

\* start, line 27: self._timer.start().  A Timer cancelled before it was
\* started never calls its function; starting a started one raises
\* RuntimeError, which ends the thread.
RT_start_27(t) ==
    /\ thr[t].pc = "s27"
    /\ CASE timer = "new" -> timer' = "pending" /\ Goto(t, "s28")
         [] timer = "newCancelled" -> timer' = "dead" /\ Goto(t, "s28")
         [] OTHER -> timer' = timer /\ Exit(t)
    /\ UNCHANGED <<is_running, orphans, flag_local, flag_skip, motor, since_stop, fgVars>>

\* start, line 28: self.is_running = True
RT_start_28(t) ==
    /\ thr[t].pc = "s28"
    /\ is_running' = TRUE
    /\ StartReturn(t)
    /\ UNCHANGED <<timer, orphans, flag_local, flag_skip, motor, since_stop, fgVars>>

\* stop, line 31: self._timer.cancel()
RT_stop_31(t) ==
    /\ thr[t].pc = "tsw225"
    /\ timer' = CASE timer = "pending" -> "dead"
                  [] timer = "new" -> "newCancelled"
                  [] OTHER -> timer
    /\ Goto(t, "stop32")
    /\ UNCHANGED <<is_running, orphans, flag_local, flag_skip, motor, since_stop, fgVars>>

\* stop, line 32: self.is_running = False
RT_stop_32(t) ==
    /\ thr[t].pc = "stop32"
    /\ is_running' = FALSE
    /\ since_stop' = TRUE
    /\ Goto(t, "tsw226")
    /\ UNCHANGED <<timer, orphans, flag_local, flag_skip, motor, fgVars>>

\* ------------------------------------------------------------ Robot.move

\* move, lines 196-203: both motor targets are written.
move(l_speed, r_speed) == motor' = MoveTargets(l_speed, r_speed)

\* ------------------------------------------------------------ Robot.test_saw_wall

\* test_saw_wall called by the timer (thread=True), line 222 to 225: with a
\* wall in the snapshot it goes on to stop the timer, otherwise it returns
\* False (line 234), _run returns and the thread ends.
test_saw_wall_thread(t, prox) ==
    /\ IF SawWall(prox, WallThreshold) THEN Goto(t, "tsw225") ELSE Exit(t)
    /\ UNCHANGED <<is_running, timer, orphans, flag_local, flag_skip, motor, since_stop, fgVars>>

\* The history of one avoidance run's polls: "first" after a first poll that
\* saw a wall, then "clear" while every later poll sees none; "allclear"
\* while no poll at all has seen one (the wall was seen by line 222 of the
\* firing only); "off" for every other sequence.
ScriptAfter(script, saw) ==
    CASE script = "none" -> IF saw THEN "first" ELSE "allclear"
      [] script \in {"first", "clear"} -> IF saw THEN "off" ELSE "clear"
      [] script = "allclear" -> IF saw THEN "off" ELSE "allclear"
      [] OTHER -> "off"

\* The number of polls that saw no wall, kept while the history is one of
\* the two above.
ClearsAfter(script, clears, saw) ==
    IF ScriptAfter(script, saw) \in {"clear", "allclear"} THEN clears + 1 ELSE 0

\* test_saw_wall called by wall_following (thread=False), lines 222, 233,
\* 234: it returns whether the snapshot shows a wall (line 252 keeps the
\* value in saw_wall).
test_saw_wall_poll(t, prox) ==
    /\ thr' = [thr EXCEPT ![t].pc = "wf254",
                          ![t].saw_wall = SawWall(prox, WallThreshold),
                          ![t].script = ScriptAfter(thr[t].script, SawWall(prox, WallThreshold)),
                          ![t].clears = ClearsAfter(thr[t].script, thr[t].clears,
                                                    SawWall(prox, WallThreshold))]
    /\ UNCHANGED <<is_running, timer, orphans, flag_local, flag_skip, motor, since_stop, fgVars>>

\* _run, line 22: self.function(), that is test_saw_wall(thread=True).
test_saw_wall_222(t) ==
    /\ thr[t].pc = "tsw222"
    /\ \E prox \in ProxSnapshots : test_saw_wall_thread(t, prox)

\* test_saw_wall, line 226: self.flag_local = True
test_saw_wall_226(t) ==
    /\ thr[t].pc = "tsw226"
    /\ flag_local' = "True"
    /\ Goto(t, "tsw227")
    /\ UNCHANGED <<is_running, timer, orphans, flag_skip, motor, since_stop, fgVars>>

\* test_saw_wall, line 227: self.flag_skip = 2
test_saw_wall_227(t) ==
    /\ thr[t].pc = "tsw227"
    /\ flag_skip' = <<SkipInit>>
    /\ Goto(t, "wf247")
    /\ UNCHANGED <<is_running, timer, orphans, flag_local, motor, since_stop, fgVars>>

\* test_saw_wall, line 230: self.flag_local = False; line 231 then calls
\* self.rt.start().
test_saw_wall_230(t) ==
    /\ thr[t].pc = "tsw230"
    /\ flag_local' = "False"
    /\ thr' = [thr EXCEPT ![t].pc = "s25", ![t].caller = "test_saw_wall",
                          ![t].script = "none", ![t].clears = 0]
    /\ UNCHANGED <<is_running, timer, orphans, flag_skip, motor, since_stop, fgVars>>

\* ------------------------------------------------------------ Robot.wall_following

\* wall_following, lines 246-250: the first forward command and the locals.
wall_following_247(t) ==
    /\ thr[t].pc = "wf247"
    /\ move(AvoidSpeed, AvoidSpeed)
    /\ thr' = [thr EXCEPT ![t].pc = "wf252", ![t].prev_state = "forward", ![t].count = 0,
                          ![t].script = "none", ![t].clears = 0]
    /\ UNCHANGED <<is_running, timer, orphans, flag_local, flag_skip, since_stop, fgVars>>

\* wall_following, line 252: saw_wall = self.test_saw_wall(thread=False)
wall_following_252(t) ==
    /\ thr[t].pc = "wf252"
    /\ \E prox \in ProxSnapshots : test_saw_wall_poll(t, prox)

\* Line 274 with > in the place of >=.
AfterIteration_late(count) == IF count > ClearNeeded THEN "wf276" ELSE "wf252"

\* Line 274: with count >= 15 the loop goes on to stop (line 276), otherwise
\* to its next poll (line 252).
AfterIteration(count) == IF count >= ClearNeeded THEN "wf276" ELSE "wf252"

\* wall_following, lines 254-274: one iteration's branch, its motor command
\* and sleep, the new prev_state and count.
wall_following_254(t) ==
    /\ thr[t].pc = "wf254"
    /\ CASE thr[t].saw_wall /\ thr[t].prev_state = "forward" ->
              /\ move(AvoidSpeed, -AvoidSpeed)
              /\ thr' = [thr EXCEPT ![t].pc = AfterIteration(0), ![t].prev_state = "turning",
                                    ![t].count = 0, ![t].saw_wall = FALSE]
         [] thr[t].saw_wall /\ thr[t].prev_state # "forward" ->
              /\ motor' = motor
              /\ thr' = [thr EXCEPT ![t].pc = AfterIteration(thr[t].count), ![t].saw_wall = FALSE]
         [] ~thr[t].saw_wall /\ thr[t].prev_state = "turning" ->
              /\ move(AvoidSpeed, AvoidSpeed)
              /\ thr' = [thr EXCEPT ![t].pc = AfterIteration(thr[t].count + 1),
                                    ![t].prev_state = "forward",
                                    ![t].count = thr[t].count + 1, ![t].saw_wall = FALSE]
         [] OTHER ->
              /\ move(-AvoidSpeed, AvoidSpeed)
              /\ thr' = [thr EXCEPT ![t].pc = AfterIteration(thr[t].count + 1),
                                    ![t].prev_state = "turning",
                                    ![t].count = thr[t].count + 1, ![t].saw_wall = FALSE]
    /\ UNCHANGED <<is_running, timer, orphans, flag_local, flag_skip, since_stop, fgVars>>

\* wall_following, lines 275-276: found_path = True; self.stop(); the loop
\* ends and wall_following returns to line 230.
wall_following_276(t) ==
    /\ thr[t].pc = "wf276"
    /\ move(0, 0)
    /\ thr' = [thr EXCEPT ![t].pc = "tsw230", ![t].prev_state = "forward", ![t].count = 0]
    /\ UNCHANGED <<is_running, timer, orphans, flag_local, flag_skip, since_stop, fgVars>>

\* ------------------------------------------------------------ Robot.__init__

\* The foreground's locals outside a call.  hit is history: time_move has
\* found the flag up (the branch of line 153).
NoLocals == [in_mtt |-> FALSE, turn_angle |-> 0, distance |-> 0, t |-> 0, hit |-> FALSE]

\* The history of a call that has just been made: the motor commands the
\* foreground has issued in it, whether it has waited, what it returns.
Called(op, arg) == [op |-> op, arg |-> arg, cmds |-> 0, waited |-> FALSE, ret |-> "None"]
NoCall == Called("none", 0)

\* __init__, line 48: self.flag_local = False (the timer of line 46 is
\* already running).
Robot_init_48 ==
    /\ pcMain = "ctor48"
    /\ flag_local' = "False"
    /\ pcMain' = "ctor49"
    /\ UNCHANGED <<timerVars, flag_skip, motor, thr, curr_pos, speed, fg, call, since_stop>>

\* __init__, line 49: self.flag_skip = 0
Robot_init_49 ==
    /\ pcMain = "ctor49"
    /\ flag_skip' = <<0>>
    /\ pcMain' = "idle"
    /\ UNCHANGED <<timerVars, flag_local, motor, thr, curr_pos, speed, fg, call, since_stop>>

\* ------------------------------------------------------------ Robot: the foreground's calls

Abs(x) == IF x < 0 THEN -x ELSE x

\* set_position, line 65
set_position(pos) ==
    /\ pcMain = "idle"
    /\ curr_pos' = pos
    /\ UNCHANGED <<timerVars, flagVars, motor, thr, speed, pcMain, fg, call, since_stop>>

\* set_speed, line 92
set_speed(s) ==
    /\ pcMain = "idle"
    /\ speed' = s
    /\ UNCHANGED <<timerVars, flagVars, motor, thr, curr_pos, pcMain, fg, call, since_stop>>

\* Line 100 without the slice: the target compared with the whole pose.
AtTarget_pose(target_pos, pos) == target_pos = pos

\* line 100: target_pos == self.curr_pos[0:2], on the lists [x, y] and
\* [x, y, angle] of the docstrings of move_to_target and set_position.
AtTarget(target_pos, pos) == target_pos = <<pos[1], pos[2]>>

\* line 104: math.sqrt(dx**2 + dy**2), for the offsets whose root is whole.
Distance(dx, dy) == CHOOSE r \in 0..(Abs(dx) + Abs(dy)) : r * r = dx * dx + dy * dy

\* line 107: math.degrees(math.atan2(dy, dx)), for the offsets along an
\* axis; in ]-180, 180].
Atan2Deg(dy, dx) ==
    CASE dy = 0 /\ dx >= 0 -> 0
      [] dy = 0 /\ dx < 0 -> 180
      [] dx = 0 /\ dy > 0 -> 90
      [] dx = 0 /\ dy < 0 -> -90

\* Lines 110-112 with the result brought into ]-180, 180].
TurnAngle_normal(path_angle, angle) ==
    IF (path_angle - angle + HalfTurn - 1) % FullTurn = FullTurn - 1
    THEN HalfTurn
    ELSE ((path_angle - angle + HalfTurn) % FullTurn) - HalfTurn

\* lines 110-112: the angle handed to turn.
TurnAngle(path_angle, angle) ==
    IF Abs(path_angle - angle) > HalfTurn
    THEN (path_angle - angle + FullTurn) % FullTurn
    ELSE path_angle - angle

\* move_to_target, lines 100-112: at the target it returns False; otherwise
\* it computes the distance and the turn angle and calls turn (line 115).
move_to_target(target_pos) ==
    /\ pcMain = "idle"
    /\ IF AtTarget(target_pos, curr_pos)
       THEN /\ call' = [Called("move_to_target", target_pos) EXCEPT !.ret = "False"]
            /\ pcMain' = "ret"
            /\ fg' = fg
       ELSE /\ call' = Called("move_to_target", target_pos)
            /\ pcMain' = "turn172"
            /\ fg' = [in_mtt |-> TRUE,
                      turn_angle |-> TurnAngle(Atan2Deg(target_pos[2] - curr_pos[2],
                                                        target_pos[1] - curr_pos[1]),
                                               curr_pos[3]),
                      distance |-> Distance(target_pos[1] - curr_pos[1],
                                            target_pos[2] - curr_pos[2]),
                      t |-> 0, hit |-> FALSE]
    /\ UNCHANGED <<timerVars, flagVars, motor, thr, curr_pos, speed, since_stop>>

\* move_to_target, lines 110-112 alone, for a path_angle that line 107 has
\* computed, in whole degrees: the angle that line 115 hands to turn.
move_to_target_110(path_angle) ==
    /\ pcMain = "idle"
    /\ call' = Called("turn_angle", path_angle)
    /\ fg' = [NoLocals EXCEPT !.in_mtt = TRUE, !.turn_angle = TurnAngle(path_angle, curr_pos[3])]
    /\ pcMain' = "ret"
    /\ UNCHANGED <<timerVars, flagVars, motor, thr, curr_pos, speed, since_stop>>

\* turn called by the foreground itself.
turn(turn_angle) ==
    /\ pcMain = "idle"
    /\ call' = Called("turn", turn_angle)
    /\ pcMain' = "turn172"
    /\ fg' = [NoLocals EXCEPT !.turn_angle = turn_angle]
    /\ UNCHANGED <<timerVars, flagVars, motor, thr, curr_pos, speed, since_stop>>

\* go_straight called by the foreground itself.
go_straight(distance) ==
    /\ pcMain = "idle"
    /\ call' = Called("go_straight", distance)
    /\ pcMain' = "gs130"
    /\ fg' = [NoLocals EXCEPT !.distance = distance]
    /\ UNCHANGED <<timerVars, flagVars, motor, thr, curr_pos, speed, since_stop>>

\* The foreground issues a motor command: move, and the call's history.
FgMove(l_speed, r_speed) ==
    /\ move(l_speed, r_speed)
    /\ call' = [call EXCEPT !.cmds = call.cmds + 1]

\* Where turn returns to: line 116 of move_to_target, or the caller.
TurnReturn == IF fg.in_mtt THEN "gs130" ELSE "ret"

\* Lines 172-175 with the two commands exchanged.
TurnCommand_swapped(turn_angle, s) == IF turn_angle > 0 THEN <<s, -s>> ELSE <<-s, s>>

\* turn, lines 172-175: the speeds handed to move for an angle other than
\* 0: to the left for a positive angle, to the right for a negative one.
TurnCommand(turn_angle, s) == IF turn_angle > 0 THEN <<-s, s>> ELSE <<s, -s>>

\* turn without the sleep of line 179: it returns after its command.
AfterTurnCommand_nosleep == TurnReturn

\* turn, lines 172-179: after the command of line 173 or 175 comes the
\* sleep of line 179.
AfterTurnCommand == "turn179"

\* turn, lines 172-177: the command by the sign of the angle; a zero angle
\* returns False at once.
turn_172 ==
    /\ pcMain = "turn172"
    /\ CASE fg.turn_angle # 0 ->
              /\ FgMove(TurnCommand(fg.turn_angle, speed)[1], TurnCommand(fg.turn_angle, speed)[2])
              /\ pcMain' = AfterTurnCommand
              /\ fg' = fg
         [] OTHER ->
              /\ motor' = motor
              /\ call' = IF fg.in_mtt THEN call ELSE [call EXCEPT !.ret = "False"]
              /\ pcMain' = TurnReturn
              /\ fg' = fg
    /\ UNCHANGED <<timerVars, flagVars, thr, curr_pos, speed, since_stop>>

\* turn, line 179: time.sleep(target_time), then turn returns.
turn_179 ==
    /\ pcMain = "turn179"
    /\ call' = [call EXCEPT !.waited = TRUE]
    /\ pcMain' = TurnReturn
    /\ fg' = fg
    /\ UNCHANGED <<timerVars, flagVars, motor, thr, curr_pos, speed, since_stop>>

\* go_straight, lines 130-135: the command by the sign of the distance, then
\* time_move starts with t = 0 (line 147).
go_straight_130 ==
    /\ pcMain = "gs130"
    /\ CASE fg.distance > 0 -> FgMove(speed, speed)
         [] fg.distance < 0 -> FgMove(-speed, -speed)
         [] OTHER -> motor' = motor /\ call' = call
    /\ pcMain' = "tm148"
    /\ fg' = [fg EXCEPT !.t = 0]
    /\ UNCHANGED <<timerVars, flagVars, thr, curr_pos, speed, since_stop>>

\* move called by the foreground itself, lines 185-203.
Robot_move(l_speed, r_speed) ==
    /\ pcMain = "idle"
    /\ move(l_speed, r_speed)
    /\ call' = [Called("move", <<l_speed, r_speed>>) EXCEPT !.cmds = 1]
    /\ pcMain' = "ret"
    /\ UNCHANGED <<timerVars, flagVars, thr, curr_pos, speed, fg, since_stop>>

\* get_speed, lines 73-84, on the readings left and right of the two
\* wheels: each is decoded and multiplied by speed_to_mm_s (here in
\* units of 0.00001 mm/s).
get_speed(left, right) ==
    /\ pcMain = "idle"
    /\ call' = [Called("get_speed", <<left, right>>) EXCEPT
                    !.ret = <<SpeedToMmS_e5 * DecodeSpeed(left), SpeedToMmS_e5 * DecodeSpeed(right)>>]
    /\ pcMain' = "ret"
    /\ UNCHANGED <<timerVars, flagVars, motor, thr, curr_pos, speed, fg, since_stop>>

\* move_to_target, turn, go_straight, move or get_speed has returned: the
\* caller goes on.
fg_return ==
    /\ pcMain = "ret"
    /\ pcMain' = "idle"
    /\ fg' = NoLocals
    /\ call' = NoCall
    /\ UNCHANGED <<timerVars, flagVars, motor, thr, curr_pos, speed, since_stop>>

\* ------------------------------------------------------------ Robot.time_move

\* Times are kept as whole numbers: seconds times speed * 315730, so that
\* target_time = abs(distance) / (speed * 0.31573) of line 127 is
\* abs(distance) * 1000000 and the slice of 0.1 s is speed * 31573.
TargetTime(distance) == Abs(distance) * TickScale
Slice(s) == s * SpeedToMmS_e5

\* time_move, line 148: while t <= target_time; when the loop ends,
\* time_move and go_straight return.
time_move_148 ==
    /\ pcMain = "tm148"
    /\ IF fg.t <= TargetTime(fg.distance)
       THEN pcMain' = "tm150" /\ fg' = fg
       ELSE pcMain' = "ret" /\ fg' = fg
    /\ UNCHANGED <<timerVars, flagVars, motor, thr, curr_pos, speed, call, since_stop>>

\* time_move, lines 150-154: with the flag down, one slice is slept; with
\* the flag up, t is set to target_time and the busy wait of line 155 starts.
time_move_150 ==
    /\ pcMain = "tm150"
    /\ IF flag_local = "True"
       THEN /\ fg' = [fg EXCEPT !.t = TargetTime(fg.distance), !.hit = TRUE]
            /\ pcMain' = "tm155"
            /\ call' = call
       ELSE /\ fg' = [fg EXCEPT !.t = fg.t + Slice(speed)]
            /\ pcMain' = "tm148"
            /\ call' = [call EXCEPT !.waited = TRUE]
    /\ UNCHANGED <<timerVars, flagVars, motor, thr, curr_pos, speed, since_stop>>

\* time_move, lines 155-156: while self.flag_local: continue
time_move_155 ==
    /\ pcMain = "tm155"
    /\ flag_local # "True"
    /\ pcMain' = "tm148"
    /\ call' = [call EXCEPT !.waited = TRUE]
    /\ UNCHANGED <<timerVars, flagVars, motor, thr, curr_pos, speed, fg, since_stop>>

\* ------------------------------------------------------------ specification

Init ==
    /\ is_running = TRUE
    /\ timer = "pending"
    /\ orphans = 0
    /\ flag_local = "unset"
    /\ flag_skip = <<>>
    /\ motor = <<0, 0>>
    /\ thr = [t \in Threads |-> FreeThread]
    /\ since_stop = FALSE
    /\ curr_pos = <<0, 0, 0>>
    /\ speed = InitSpeed
    /\ pcMain = "ctor48"
    /\ fg = NoLocals
    /\ call = NoCall

TimerStep(t) ==
    \/ RT_run_20(t)
    \/ RT_start_25(t)
    \/ RT_start_26(t)
    \/ RT_start_27(t)
    \/ RT_start_28(t)
    \/ RT_stop_31(t)
    \/ RT_stop_32(t)

WatchdogStep(t) ==
    \/ test_saw_wall_222(t)
    \/ test_saw_wall_226(t)
    \/ test_saw_wall_227(t)
    \/ test_saw_wall_230(t)
    \/ wall_following_247(t)
    \/ wall_following_252(t)
    \/ wall_following_254(t)
    \/ wall_following_276(t)

Constructor ==
    \/ Robot_init_48
    \/ Robot_init_49

Foreground ==
    \/ \E pos \in Poses : set_position(pos)
    \/ \E s \in Speeds : set_speed(s)
    \/ \E target_pos \in { p \in Targets : p[1] = curr_pos[1] \/ p[2] = curr_pos[2] } :
          move_to_target(target_pos)
    \/ \E turn_angle \in TurnAngles : turn(turn_angle)
    \/ \E distance \in Distances : go_straight(distance)
    \/ turn_172
    \/ turn_179
    \/ go_straight_130
    \/ time_move_148
    \/ time_move_150
    \/ time_move_155
    \/ fg_return

\* The constructor, the timer and the threads of its firings, as many as
\* MaxThreads at once; the foreground makes no call.
Next ==
    \/ Constructor
    \/ Timer_fire(MaxThreads)
    \/ \E t \in Threads : TimerStep(t)
    \/ \E t \in Threads : WatchdogStep(t)

Spec == Init /\ [][Next]_vars

\* The same with one more timer thread: a firing while the callback of an
\* earlier one is still running.
NextOverlap ==
    \/ Constructor
    \/ Timer_fire(MaxThreads + 1)
    \/ \E t \in Threads : TimerStep(t)
    \/ \E t \in Threads : WatchdogStep(t)

SpecOverlap == Init /\ [][NextOverlap]_vars

\* The whole program, with the foreground's calls, on the schedules where a
\* firing's callback has returned before the next firing.
NextDrive ==
    \/ Constructor
    \/ Foreground
    \/ Timer_fire(1)
    \/ \E t \in Threads : TimerStep(t)
    \/ \E t \in Threads : WatchdogStep(t)

SpecDrive == Init /\ [][NextDrive]_vars

\* The foreground alone, calling move and get_speed with wheel speeds from
\* both ends and the middle of [-9999, 9999]; the wheels report what move
\* has written.
NextCodec ==
    \/ Constructor
    \/ \E l_speed \in WheelSpeeds, r_speed \in WheelSpeeds : Robot_move(l_speed, r_speed)
    \/ get_speed(motor[1], motor[2])
    \/ fg_return

SpecCodec == Init /\ [][NextCodec]_vars

\* The foreground alone, with every heading of Headings stored and every
\* path angle of ]-180, 180] handed to lines 110-112.
NextAngle ==
    \/ Constructor
    \/ \E angle \in Headings : set_position(<<0, 0, angle>>)
    \/ \E path_angle \in PathAngles : move_to_target_110(path_angle)
    \/ fg_return

SpecAngle == Init /\ [][NextAngle]_vars

\* SpecOverlap under fair scheduling: the constructor and every thread
\* that can take a step eventually takes one, and a started Timer that is
\* not cancelled eventually fires.
Fairness ==
    /\ WF_vars(Constructor)
    /\ WF_vars(Timer_fire(MaxThreads + 1))
    /\ \A t \in Threads : WF_vars(TimerStep(t) \/ WatchdogStep(t))

SpecFair == Init /\ [][NextOverlap]_vars /\ Fairness

\* ============================================================ claims

\* The threads inside the loop of wall_following (line 247 has run, the
\* return to line 230 has not happened).
InAvoidance(t) == thr[t].pc \in {"wf252", "wf254", "wf276"}

\* The threads whose call of the timer's function has started and not
\* returned: test_saw_wall past line 222, wall_following, and the start()
\* of line 231.
InFunction(t) ==
    \/ thr[t].pc \in {"tsw225", "stop32", "tsw226", "tsw227", "wf247", "tsw230"}
    \/ InAvoidance(t)
    \/ thr[t].pc \in {"s25", "s26", "s27", "s28"} /\ thr[t].caller = "test_saw_wall"

\* The started Timers that have neither fired nor been cancelled.
Pending == (IF timer = "pending" THEN 1 ELSE 0) + orphans

\* No thread is inside _run's first two lines, start() or stop().
Quiescent == \A t \in Threads : thr[t].pc \notin {"run20", "s25", "s26", "s27", "s28", "stop32"}

\* C1: at most one execution of wall_following is in progress at any time.
C1_OneAvoidance == Cardinality({ t \in Threads : InAvoidance(t) }) <= 1

\* C2: while the obstacle flag is true the foreground (move_to_target, turn,
\* go_straight) issues no motor command.
C2_NoForegroundCommandUnderFlag ==
    [][call'.cmds > call.cmds => flag_local # "True"]_vars

\* C3: go_straight never returns in a state where the obstacle flag is true.
C3_ReturnsWithFlagDown ==
    [][(pcMain = "tm148" /\ pcMain' = "ret") => flag_local # "True"]_vars

\* C4: a firing of test_saw_wall that saw a wall ends, after stop, flag,
\* avoidance and flag, with the schedule started again: is_running true and
\* a firing pending.
C4_FiringRestartsSchedule ==
    [][\A t \in Threads :
          (thr[t].caller = "test_saw_wall" /\ thr'[t].pc = "free")
              => (is_running' /\ Pending' >= 1)]_vars

\* C5: two executions of the timer's function never overlap.
C5_NoOverlap == Cardinality({ t \in Threads : InFunction(t) }) <= 1

\* C6: at most one firing is pending at any time, and is_running is true
\* exactly when one is (looked at whenever no thread is inside start(),
\* stop() or the first lines of _run).
C6_OnePendingIffRunning ==
    Quiescent => (Pending <= 1 /\ (is_running <=> Pending = 1))

\* C7: after stop() has returned, no Timer fires until start() is called
\* again.
C7_NoFiringAfterStop ==
    [][(\E t \in Threads : thr[t].pc = "free" /\ thr'[t].pc = "run20") => ~since_stop]_vars

\* C8: in a run of wall_following whose polls after the first all report
\* no wall, the loop is left after exactly ClearNeeded such polls, not
\* fewer and not more (count, the loop's own counter, is their number), and
\* the command it then issues, its last, is stop: both motor targets 0.
C8_ExactlyFifteenClears ==
    /\ [](\A t \in Threads :
            thr[t].script \in {"clear", "allclear"} =>
                /\ thr[t].pc \in {"wf252", "wf254", "wf276", "tsw230"}
                /\ thr[t].pc \in {"wf252", "wf276"} => thr[t].count = thr[t].clears
                /\ thr[t].pc = "wf254" => thr[t].count + 1 = thr[t].clears
                /\ thr[t].pc = "wf252" => thr[t].clears < ClearNeeded
                /\ thr[t].pc = "wf254" => thr[t].clears <= ClearNeeded
                /\ thr[t].pc \in {"wf276", "tsw230"} => thr[t].clears = ClearNeeded)
    /\ [][\A t \in Threads :
            thr[t].script \in {"clear", "allclear"} =>
                /\ (thr[t].pc = "wf276" /\ thr'[t].pc # "wf276")
                       => (thr'[t].pc = "tsw230" /\ motor' = <<0, 0>>)
                /\ (thr[t].pc = "tsw230" /\ thr'[t].pc # "tsw230")
                       => motor' = motor]_vars

C8_Witness ==
    \E t \in Threads :
        /\ thr[t].pc = "tsw230"
        /\ thr[t].script = "clear"
        /\ thr[t].clears = ClearNeeded
        /\ motor = <<0, 0>>

\* C9: test_saw_wall(thread=False) returns true exactly when one of the
\* readings other than the last two is strictly above the threshold, and
\* the call leaves the obstacle flag, the skip counter, the timer's state
\* and the motor targets as they were.
C9_PollIsPure ==
    [][\A t \in Threads :
          (thr[t].pc = "wf252" /\ thr'[t].pc = "wf254") =>
              /\ UNCHANGED <<flag_local, flag_skip, is_running, timer, orphans, motor>>
              /\ \A prox \in ProxSnapshots :
                    test_saw_wall_poll(t, prox) =>
                        thr'[t].saw_wall = (\E i \in 1..(NumProx - 2) : prox[i] > WallThreshold)]_vars

C9_Witness ==
    \E t \in Threads :
        /\ thr[t].pc = "wf254"
        /\ thr[t].saw_wall
        /\ thr[t].script = "off"
        /\ flag_local = "True"

\* C10: move_to_target with the target at the stored position returns at
\* once (False), with no motor command and no wait, whatever the stored
\* angle.
C10_AtTargetNoCommand ==
    (call.op = "move_to_target" /\ call.arg = <<curr_pos[1], curr_pos[2]>>)
        => (pcMain = "ret" /\ call.cmds = 0 /\ ~call.waited /\ call.ret = "False")

C10_Witness ==
    /\ call.op = "move_to_target"
    /\ call.arg = <<5, 0>>
    /\ curr_pos = <<5, 0, -90>>
    /\ pcMain = "ret"

\* C11: in move_to_target to another position the foreground issues the
\* turn command first and the straight command only after the sleep of
\* the turn has ended, at most one of each.
C11_TurnThenStraight ==
    /\ [](call.op = "move_to_target" =>
            /\ call.cmds <= 2
            /\ pcMain = "turn172" => (call.cmds = 0 /\ ~call.waited)
            /\ pcMain = "turn179" => (call.cmds = 1 /\ ~call.waited)
            /\ pcMain = "gs130" => \/ (call.cmds = 0 /\ fg.turn_angle = 0)
                                   \/ (call.cmds = 1 /\ call.waited))
    /\ [][(call.op = "move_to_target" /\ call'.cmds > call.cmds) =>
            \/ /\ pcMain = "turn172"
               /\ call.cmds = 0
               /\ motor' \in {MoveTargets(-speed, speed), MoveTargets(speed, -speed)}
            \/ /\ pcMain = "gs130"
               /\ call.cmds = 0 \/ call.waited
               /\ motor' \in {MoveTargets(speed, speed), MoveTargets(-speed, -speed)}
               /\ pcMain' = "tm148"]_vars

C11_Witness ==
    /\ call.op = "move_to_target"
    /\ call.cmds = 2
    /\ fg.turn_angle # 0
    /\ pcMain = "ret"

\* C12: turn issues exactly one motor command for an angle other than 0,
\* (left = -s, right = +s) for a positive angle and (left = +s, right = -s)
\* for a negative one, each sent as move sends it; for the angle 0 it
\* issues none, does not wait and returns False.  move_to_target from the
\* pose (0, 0, 0) to (100, 0) hands turn the angle 0.
C12_TurnCommands ==
    /\ [](/\ TurnAngle(Atan2Deg(0 - 0, 100 - 0), 0) = 0
          /\ call.op = "turn" =>
                /\ call.cmds <= 1
                /\ pcMain = "ret" =>
                      IF call.arg = 0
                      THEN call.cmds = 0 /\ ~call.waited /\ call.ret = "False"
                      ELSE call.cmds = 1 /\ call.waited /\ call.ret = "None")
    /\ [][(pcMain = "turn172" /\ pcMain' # "turn172") =>
            /\ fg.turn_angle > 0 =>
                  /\ motor' = <<Wrap16 - speed, speed>>
                  /\ call'.cmds = call.cmds + 1
                  /\ pcMain' = "turn179"
            /\ fg.turn_angle < 0 =>
                  /\ motor' = <<speed, Wrap16 - speed>>
                  /\ call'.cmds = call.cmds + 1
                  /\ pcMain' = "turn179"
            /\ fg.turn_angle = 0 =>
                  /\ motor' = motor
                  /\ call'.cmds = call.cmds
                  /\ call'.waited = call.waited
                  /\ pcMain' \in {"ret", "gs130"}]_vars

C12_Witness ==
    /\ call.op = "move_to_target"
    /\ curr_pos = <<0, 0, 0>>
    /\ call.arg = <<5, 0>>
    /\ fg.turn_angle = 0
    /\ call.cmds = 1
    /\ pcMain = "ret"

\* C13: move writes v + 65536 for a speed v in [-9999, -1] and v itself
\* for v in [0, 9999], and the rule of get_speed (subtract 65536 from a
\* reading above 9999) gives v back from what was written.
C13_SpeedRoundTrip ==
    /\ call.op = "move" =>
          \A i \in 1..2 :
              /\ call.arg[i] < 0 => motor[i] = call.arg[i] + 65536
              /\ call.arg[i] >= 0 => motor[i] = call.arg[i]
              /\ DecodeSpeed(motor[i]) = call.arg[i]
    /\ call.op = "get_speed" =>
          \A i \in 1..2 :
              /\ call.arg[i] = motor[i]
              /\ \E v \in WheelSpeeds :
                    /\ call.ret[i] = SpeedToMmS_e5 * v
                    /\ call.arg[i] = (IF v < 0 THEN v + 65536 ELSE v)

C13_Witness ==
    /\ call.op = "get_speed"
    /\ call.arg = <<65535, 55537>>
    /\ call.ret = <<-SpeedToMmS_e5, -9999 * SpeedToMmS_e5>>

\* C14: a go_straight whose wait has found the obstacle flag up returns,
\* once the flag is down, with both motor targets 0, the stop that ended
\* the avoidance.
C14_InterruptedWaitEndsStopped ==
    [][(pcMain = "tm148" /\ pcMain' = "ret" /\ fg.hit) => motor = <<0, 0>>]_vars

\* C15: count is the number of polls without a wall since the last poll
\* with one: an iteration whose poll saw a wall ends with count = 0.
C15_WallCycleRestartsCount ==
    [][\A t \in Threads :
          (thr[t].pc = "wf254" /\ thr[t].saw_wall /\ thr'[t].pc \in {"wf252", "wf276"})
              => thr'[t].count = 0]_vars

\* C16: an iteration that starts with prev_state "turning" and whose poll
\* saw a wall issues the command left = -100, right = +100, adds 1 to
\* count and leaves prev_state "turning".
C16_TurningWallSweepsLeft ==
    [][\A t \in Threads :
          (/\ thr[t].pc = "wf254"
           /\ thr[t].saw_wall
           /\ thr[t].prev_state = "turning"
           /\ thr'[t].pc \in {"wf252", "wf276"})
              => /\ motor' = <<Wrap16 - AvoidSpeed, AvoidSpeed>>
                 /\ thr'[t].count = thr[t].count + 1
                 /\ thr'[t].prev_state = "turning"]_vars

\* C17: an iteration with prev_state "forward" and no wall leaves
\* prev_state "forward"; with prev_state "forward" and a wall it issues
\* left = +100, right = -100, sets count to 0 and prev_state to "turning";
\* with prev_state "turning" and no wall it issues +100, +100 and sets
\* prev_state to "forward".
C17_ForwardTransitions ==
    [][\A t \in Threads :
          (thr[t].pc = "wf254" /\ thr'[t].pc \in {"wf252", "wf276"}) =>
              /\ (thr[t].prev_state = "forward" /\ ~thr[t].saw_wall)
                    => thr'[t].prev_state = "forward"
              /\ (thr[t].prev_state = "forward" /\ thr[t].saw_wall)
                    => /\ motor' = <<AvoidSpeed, Wrap16 - AvoidSpeed>>
                       /\ thr'[t].count = 0
                       /\ thr'[t].prev_state = "turning"
              /\ (thr[t].prev_state = "turning" /\ ~thr[t].saw_wall)
                    => /\ motor' = <<AvoidSpeed, AvoidSpeed>>
                       /\ thr'[t].prev_state = "forward"]_vars

\* C18: with d = path_angle - stored angle, the angle handed to turn is d
\* when |d| <= 180 and (d + 360) mod 360 when |d| > 180; it is congruent
\* to d modulo 360; a d in ]180, 360[ is handed on unchanged, outside
\* ]-180, 180], and a d in ]-360, -180[ becomes d + 360.
C18_TurnAngleWrap ==
    call.op = "turn_angle" =>
        LET d == call.arg - curr_pos[3]
            r == fg.turn_angle
        IN  /\ (d <= 180 /\ d >= -180) => r = d
            /\ (d > 180 \/ d < -180) => (r = (d + 360) % 360 /\ r >= 0 /\ r < 360)
            /\ (r - d) % 360 = 0
            /\ (d > 180 /\ d < 360) => (r = d /\ r > 180)
            /\ (d > -360 /\ d < -180) => (r = d + 360 /\ r > 0 /\ r < 180)

C18_Witness ==
    /\ call.op = "turn_angle"
    /\ call.arg = 180
    /\ curr_pos[3] = -90
    /\ fg.turn_angle = 270

\* C19: while an execution of wall_following started by a firing is in
\* progress, the obstacle flag is true.
C19_FlagUpDuringAvoidance ==
    \A t \in Threads : InAvoidance(t) => flag_local = "True"

\* No thread has just read a snapshot with a wall: neither the read of a
\* firing (which leads to line 225) nor a poll of wall_following.
NoWallSeen ==
    \A t \in Threads : thr[t].pc # "tsw225" /\ ~(thr[t].pc = "wf254" /\ thr[t].saw_wall)

\* C20: under fair scheduling, if from some point on no read reports a
\* wall, then from some point on no avoidance is in progress and the flag
\* is not up, the foreground is time and again outside time_move, and the
\* timer is time and again scheduled: is_running with a firing pending.
C20_ClearSensorSettles ==
    (<>[]NoWallSeen) =>
        /\ <>[](flag_local # "True" /\ \A t \in Threads : ~InAvoidance(t))
        /\ []<>(pcMain \notin {"tm148", "tm150", "tm155"})
        /\ []<>(is_running /\ timer = "pending")

====
